---- MODULE Spec2Model ----
(***************************************************************************)
(* Model of lib/server.js of zerorpc-node: the method registry built by    *)
(* publicMethods, the request dispatch of Server, and the per-call channel *)
(* state machine of Server.prototype._recv (result / finish).              *)
(***************************************************************************)
EXTENDS Naturals, Sequences, FiniteSets, TLC

(***************************************************************************)
(* Bounds of the model.                                                    *)
(***************************************************************************)
\* requests the transport delivers in one behaviour
MaxEvents == 2
\* result-sink invocations made by application code in one behaviour
MaxCalls == 2
\* the number of times heartbeat timers fire
MaxTicks == 2

(***************************************************************************)
(* JavaScript values.  t is the kind of the value, v its primitive content *)
(* (strings and booleans), elems the elements of an array or, for an       *)
(* error object, its properties <<type, message, stack>>.                  *)
(***************************************************************************)
Undefined == [t |-> "undefined", v |-> "", elems |-> <<>>]
Null == [t |-> "null", v |-> "", elems |-> <<>>]
True == [t |-> "boolean", v |-> "true", elems |-> <<>>]
False == [t |-> "boolean", v |-> "false", elems |-> <<>>]
Str(s) == [t |-> "string", v |-> s, elems |-> <<>>]
Arr(s) == [t |-> "array", v |-> "", elems |-> s]
\* an object carrying the properties type, message and stack
ErrorObject(type, message, stack) ==
    [t |-> "object", v |-> "", elems |-> <<type, message, stack>>]
\* the object holding the introspection manifest: {methods: inspected}
ManifestObject(inspected) == [t |-> "manifest", v |-> "", elems |-> inspected]

\* ToBoolean, as applied by if(x), !x and x || y
Truthy(x) ==
    /\ x.t \notin {"undefined", "null"}
    /\ x # False
    /\ x # Str("")

\* x || y
Or(x, y) == IF Truthy(x) THEN x ELSE y

\* x !== undefined (strict comparison), in place of x != undefined
NotStrictUndefined(x) == x.t # "undefined"

\* x != undefined (loose comparison: null equals undefined)
NotLooseUndefined(x) == x.t \notin {"undefined", "null"}

\* event.args instanceof Array
InstanceofArray(x) == x.t = "array"

\* new Error(message): no type, the given message, a stack trace
NewError(message) == ErrorObject(Undefined, message, Str("<stack>"))

\* errorObj.type, errorObj.message, errorObj.stack (undefined on a value
\* that has no such property)
ErrProp(x, i) == IF x.t = "object" /\ Len(x.elems) >= i THEN x.elems[i] ELSE Undefined

(***************************************************************************)
(* The Context and the method registry.                                    *)
(***************************************************************************)
\* member names; the order is the enumeration order of for(name in context)
NameOrder == <<"add", "_hidden", "version", "ping", "now", "late">>
\* members every object inherits from Object.prototype (not enumerable)
ObjectPrototypeNames == {"toString", "__defineGetter__"}
InspectName == "_zerorpc_inspect"
ContextNames == {NameOrder[i] : i \in 1..Len(NameOrder)}
                    \cup ObjectPrototypeNames \cup {InspectName}

\* members of a context
NoMember == [kind |-> "none", params |-> <<>>, body |-> "none"]
ValueMember == [kind |-> "value", params |-> <<>>, body |-> "none"]
\* a function written by the application, with its declared parameters
Function(params) == [kind |-> "function", params |-> params, body |-> "user"]
\* a function of Object.prototype: callable, never calls its arguments
NativeFunction == [kind |-> "function", params |-> <<>>, body |-> "native"]
\* function(cb) { cb(null, inspectedOutput, false); }
Inspector == [kind |-> "function", params |-> <<"cb">>, body |-> "inspect"]

\* the members an empty object has: those of Object.prototype
EmptyObject ==
    [n \in ContextNames |->
        IF n \in ObjectPrototypeNames THEN NativeFunction ELSE NoMember]

\* /^_/.test(name)
StartsWithUnderscore(name) == name \in {"_hidden", "__defineGetter__", InspectName}

\* typeof(context[name]) == 'function'
IsFunction(context, name) == context[name].kind = "function"

\* the names for(var name in context) visits, in order: the enumerable
\* members, which excludes those of Object.prototype
Enumerate(context) ==
    SelectSeq(NameOrder, LAMBDA n : context[n].kind # "none")

\* fun.toString().match(m1)[1]...split(','): the declared parameter names;
\* splitting the empty parameter list gives one empty name
SplitParams(fun) == IF fun.params = <<>> THEN <<"">> ELSE fun.params

getArguments(fun) ==
    LET names == SplitParams(fun)
    IN  IF Len(names) = 1 /\ names[1] = "" THEN <<>> ELSE names

\* args.shift(): removes the first element, if any
Shift(s) == IF s = <<>> THEN <<>> ELSE Tail(s)

\* the keys of methods with the test of the underscore left out
PublicNamesWithPrivate(context) ==
    SelectSeq(Enumerate(context), LAMBDA n : IsFunction(context, n))

\* the keys of methods after the first loop, in insertion order
PublicNames(context) ==
    SelectSeq(Enumerate(context),
              LAMBDA n : ~StartsWithUnderscore(n) /\ IsFunction(context, n))

\* ["self"].concat(args) after args.shift(), as an array of strings
ArgsWithSelf(fun) ==
    LET args == Shift(getArguments(fun))
    IN  Arr(<<Str("self")>> \o [i \in 1..Len(args) |-> Str(args[i])])

\* [name, [argsWithSelf, null, null, null], ""]
InspectedEntry(context, name) ==
    Arr(<<Str(name), Arr(<<ArgsWithSelf(context[name]), Null, Null, Null>>), Str("")>>)

\* inspectedOutput = {methods: inspected}
InspectedOutput(context) ==
    LET names == PublicNames(context)
    IN  ManifestObject([i \in 1..Len(names) |-> InspectedEntry(context, names[i])])

\* the keys of the object publicMethods returns
publicMethods(context) == PublicNames(context) \o <<InspectName>>

\* context._zerorpc_inspect = function(cb) {...} with the members publicMethods
\* skips removed from the context
InjectInspectorHidingPrivate(context) ==
    [n \in ContextNames |->
        IF n = InspectName THEN Inspector
        ELSE IF StartsWithUnderscore(n) THEN NoMember ELSE context[n]]

\* context._zerorpc_inspect = function(cb) {...}
InjectInspector(context) == [context EXCEPT ![InspectName] = Inspector]

\* event.name in methods: the keys of methods and, methods being a plain
\* object, every member of Object.prototype
In(name, methods) ==
    \/ \E i \in 1..Len(methods) : methods[i] = name
    \/ name \in ObjectPrototypeNames

(***************************************************************************)
(* The per-call channel of Server.prototype._recv.                         *)
(***************************************************************************)
DEFAULT_HEARTBEAT == 5

\* (options.heartbeat || DEFAULT_HEARTBEAT) * 1000, with no option given
HeartbeatInterval == DEFAULT_HEARTBEAT * 1000

Frame(kind, payload) == [kind |-> kind, payload |-> payload]

\* the locals of one _recv call after openChannel and addHeartbeat:
\* event               the request: name and args
\* isFirst, finished   the closure flags
\* closed, closes      the channel's state and the number of channel.close() calls
\* heartbeat           the interval addHeartbeat was given
\* frames              what channel.send was given, in order
\* invoked             how often context[event.name] was applied
\* sink                whether application code holds the result callback
\* invocations         how often result was invoked
\* calls               the (error, item, more) of the result invocations that
\*                     found the channel unfinished, in order
\* raised              how often result threw
\* heartbeats, timer   how often addHeartbeat was called on the channel, and
\*                     whether its heartbeat timer is running
\* cancels, ticks      how often the timer was cancelled, and how often it
\*                     sent a liveness signal
\* failures, lost      how often the timer reported a liveness failure, and
\*                     the error it reported last
\* log                 the steps _recv has taken, in order
\* applied             the arguments context[event.name] was applied with
OpenChannel(event) ==
    [event |-> event, isFirst |-> TRUE, finished |-> FALSE, closed |-> FALSE,
     closes |-> 0, heartbeat |-> 0, frames |-> <<>>,
     invoked |-> 0, sink |-> FALSE, invocations |-> 0, calls |-> <<>>,
     raised |-> 0, heartbeats |-> 0, timer |-> FALSE, cancels |-> 0,
     ticks |-> 0, failures |-> 0, lost |-> Undefined,
     log |-> <<"openChannel">>, applied |-> <<>>]

\* middleware.addHeartbeat(heartbeat, channel, callback): starts the
\* channel's heartbeat timer
AddHeartbeat(ch) ==
    [ch EXCEPT !.heartbeat = HeartbeatInterval, !.heartbeats = @ + 1,
               !.timer = TRUE, !.log = Append(@, "addHeartbeat")]

\* channel.close(): closes the channel and cancels its heartbeat timer
Close(ch) ==
    [ch EXCEPT !.closed = TRUE, !.closes = @ + 1, !.timer = FALSE,
               !.cancels = IF ch.timer THEN @ + 1 ELSE @]

\* channel.send(kind, payload)
Send(ch, kind, payload) == [ch EXCEPT !.frames = Append(@, Frame(kind, payload))]

\* finish() without finished = true
FinishLeavesFlag(ch) == Close(ch)

\* finish(): finished = true; channel.close()
Finish(ch) == Close([ch EXCEPT !.finished = TRUE])

\* the ERR payload without the default type
ErrArgsNoDefault(error) ==
    LET errorObj == IF error.t = "string" THEN NewError(error) ELSE error
    IN  Arr(<<ErrProp(errorObj, 1), ErrProp(errorObj, 2), ErrProp(errorObj, 3)>>)

\* the [type, message, stack] sent with ERR
ErrArgs(error) ==
    LET errorObj == IF error.t = "string" THEN NewError(error) ELSE error
    IN  Arr(<<Or(ErrProp(errorObj, 1), Str("Error")),
              ErrProp(errorObj, 2), ErrProp(errorObj, 3)>>)

\* the first if/else-if with OK sent by every completing invocation
SendItemOkWhenDone(ch, item, more) ==
    IF ~Truthy(more) THEN Send(ch, "OK", Arr(<<item>>))
    ELSE IF NotLooseUndefined(item) THEN Send(ch, "STREAM", item)
    ELSE ch

\* the first if/else-if with the item of OK left unwrapped
SendItemUnwrapped(ch, item, more) ==
    IF ch.isFirst /\ ~Truthy(more) THEN Send(ch, "OK", item)
    ELSE IF NotLooseUndefined(item) THEN Send(ch, "STREAM", item)
    ELSE ch

\* the first if/else-if of the non-error branch: OK or STREAM or nothing
SendItem(ch, item, more) ==
    IF ch.isFirst /\ ~Truthy(more) THEN Send(ch, "OK", Arr(<<item>>))
    ELSE IF NotLooseUndefined(item) THEN Send(ch, "STREAM", item)
    ELSE ch

\* the second if with finish() outside the test of more
SendDoneFinishing(ch, more) ==
    Finish(IF ~Truthy(more) /\ ~ch.isFirst
           THEN Send(ch, "STREAM_DONE", Arr(<<>>)) ELSE ch)

\* if(!more) without the test of isFirst
SendDoneAlways(ch, more) ==
    IF ~Truthy(more) THEN Finish(Send(ch, "STREAM_DONE", Arr(<<>>))) ELSE ch

\* if(!more) { if(!isFirst) channel.send("STREAM_DONE", []); finish(); }
SendDone(ch, more) ==
    IF ~Truthy(more)
    THEN Finish(IF ~ch.isFirst THEN Send(ch, "STREAM_DONE", Arr(<<>>)) ELSE ch)
    ELSE ch

\* result without its last statement, isFirst = false
ResultKeepingFirst(ch, error, item, more) ==
    IF ch.finished THEN [ch EXCEPT !.raised = @ + 1]
    ELSE LET rec == [ch EXCEPT !.calls =
                        Append(@, [error |-> error, item |-> item, more |-> more])]
         IN  IF Truthy(error)
             THEN Finish(Send(rec, "ERR", ErrArgs(error)))
             ELSE SendDone(SendItem(rec, item, more), more)

\* result without the throw: an invocation on a finished channel returns
ResultWithoutThrow(ch, error, item, more) ==
    IF ch.finished THEN ch
    ELSE LET rec == [ch EXCEPT !.calls =
                        Append(@, [error |-> error, item |-> item, more |-> more])]
             out == IF Truthy(error)
                    THEN Finish(Send(rec, "ERR", ErrArgs(error)))
                    ELSE SendDone(SendItem(rec, item, more), more)
         IN  [out EXCEPT !.isFirst = FALSE]

\* the body of result(error, item, more) on the channel ch
Result(ch, error, item, more) ==
    IF ch.finished THEN [ch EXCEPT !.raised = @ + 1]
    ELSE LET rec == [ch EXCEPT !.calls =
                        Append(@, [error |-> error, item |-> item, more |-> more])]
             out == IF Truthy(error)
                    THEN Finish(Send(rec, "ERR", ErrArgs(error)))
                    ELSE SendDone(SendItem(rec, item, more), more)
         IN  [out EXCEPT !.isFirst = FALSE]

\* one invocation of result(error, item, more)
Invoke(ch, error, item, more) ==
    Result([ch EXCEPT !.invocations = @ + 1], error, item, more)

(***************************************************************************)
(* The state of the program.                                               *)
(***************************************************************************)
VARIABLES
    given,            \* the Context as it was handed to the constructor
    context,          \* the Context object now
    methods,          \* the keys of the registry publicMethods returned
    inspectedOutput,  \* the manifest the inspector closes over
    listening,        \* whether an "error" listener is subscribed to the server
    errors,           \* what the "error" listeners of the server were given
    channels,         \* one entry per _recv call, in order of arrival
    received          \* number of requests the transport has delivered

vars == <<given, context, methods, inspectedOutput, listening, errors,
          channels, received>>

\* a service object: three public methods, a private one and a plain value
Service ==
    [EmptyObject EXCEPT !["add"] = Function(<<"a", "b", "cb">>),
                        !["_hidden"] = Function(<<"cb">>),
                        !["version"] = ValueMember,
                        !["ping"] = Function(<<"cb">>),
                        !["now"] = Function(<<>>)]

\* the Contexts a server is constructed with
Contexts == {Service, EmptyObject}

\* new Server(context): publicMethods(context), no listener subscribed yet
Init ==
    /\ given \in Contexts
    /\ context = InjectInspector(given)
    /\ methods = publicMethods(given)
    /\ inspectedOutput = InspectedOutput(given)
    /\ listening = FALSE
    /\ errors = <<>>
    /\ channels = <<>>
    /\ received = 0

\* the requests of the model
RequestNames == {"add", "_hidden", "version", "late", "toString",
                 "__defineGetter__", InspectName}
NoArgs == Arr(<<>>)
BadArgs == Str("not an array")
Requests ==
    {[name |-> n, args |-> NoArgs] : n \in RequestNames}
        \cup {[name |-> n, args |-> BadArgs] : n \in {"add", "late"}}

\* the (error, item, more) application code passes to the result sink
Items == {Undefined, Null, Str("a")}
TypedError == ErrorObject(Str("NameError"), Str("bad name"), Str("<trace>"))
UntypedError == ErrorObject(Undefined, Str("failed"), Str("<trace>"))
SinkInputs ==
    {<<Null, item, True>> : item \in Items}
        \cup {<<Null, item, False>> : item \in {Undefined, Str("a")}}
        \cup {<<Undefined, Str("b"), Undefined>>,
              <<Str("boom"), Undefined, Undefined>>,
              <<TypedError, Str("a"), True>>,
              <<UntypedError, Undefined, False>>}

\* self.emit("error", error): an EventEmitter with no "error" listener
\* throws instead of delivering
EmitThrows == ~listening
Emit(error) == IF listening THEN Append(errors, error) ELSE errors

\* the heartbeat timer of ch sends a liveness signal over the channel
Tick(ch) == [ch EXCEPT !.ticks = @ + 1]

\* the heartbeat timer of ch detects a liveness failure and reports error
Fail(ch, error) == [ch EXCEPT !.failures = @ + 1, !.lost = error]

\* function(error) { if(error) self.emit("error", error); } closing the
\* channel as well
HeartbeatCallbackCloses(ch, error) == IF Truthy(error) THEN Finish(ch) ELSE ch

\* function(error) { if(error) self.emit("error", error); }, the callback
\* given to addHeartbeat: the channel it leaves
HeartbeatCallback(ch, error) == ch

\* function(error) { if(error) self.emit("error", error); }: the errors
\* the listeners of the server have seen after it
HeartbeatEmits(error) == IF Truthy(error) THEN Emit(error) ELSE errors

\* the function result, as a value in an argument list
ResultSink == [t |-> "function", v |-> "result", elems |-> <<>>]

\* event.args.unshift(result)
PushResultFirst(args) == <<ResultSink>> \o args

\* event.args.push(result)
PushResult(args) == Append(args, ResultSink)

\* context[event.name].apply(context, event.args) after
\* event.args.push(result), on the channel ch: a function of the
\* application keeps the sink, the inspector calls its first argument
Apply(ch) ==
    LET fun == context[ch.event.name]
        args == PushResult(ch.event.args.elems)
        called == [ch EXCEPT !.invoked = @ + 1, !.applied = args,
                             !.log = Append(@, "apply")]
    IN  IF fun.kind # "function" THEN ch
        ELSE IF fun.body = "user" THEN [called EXCEPT !.sink = TRUE]
        ELSE IF fun.body = "inspect" /\ args[1] = ResultSink
             THEN Invoke(called, Null, inspectedOutput, False)
        ELSE called

\* if(!(event.args instanceof Array)) { emit; return finish(); }
Validate(ch) == [ch EXCEPT !.log = Append(@, "validate")]

\* _recv without the call of middleware.addHeartbeat
RecvWithoutHeartbeat(event) ==
    LET channel == Validate(OpenChannel(event))
    IN  IF ~InstanceofArray(event.args)
        THEN IF EmitThrows THEN channel ELSE Finish(channel)
        ELSE Apply(channel)

\* Server.prototype._recv(event, heartbeat, context): the channel it leaves
Recv(event) ==
    LET channel == Validate(AddHeartbeat(OpenChannel(event)))
    IN  IF ~InstanceofArray(event.args)
        THEN IF EmitThrows THEN channel ELSE Finish(channel)
        ELSE Apply(channel)

\* the "multiplexing-socket/receive" handler of Server
Receive(event) ==
    /\ received < MaxEvents
    /\ received' = received + 1
    /\ IF In(event.name, methods)
       THEN /\ channels' = Append(channels, Recv(event))
            /\ errors' = IF InstanceofArray(event.args) THEN errors
                         ELSE Emit(Str("Invalid event: Bad args"))
       ELSE UNCHANGED <<channels, errors>>
    /\ UNCHANGED <<given, context, methods, inspectedOutput, listening>>

RECURSIVE SinkCalls(_)
\* the number of result invocations made so far
SinkCalls(chs) ==
    IF chs = <<>> THEN 0
    ELSE Head(chs).invocations + SinkCalls(Tail(chs))

\* result of call c emitting the error it is given on the server as well
CallResultEmitting(c, error, item, more) ==
    /\ SinkCalls(channels) < MaxCalls
    /\ channels[c].sink
    /\ channels' = [channels EXCEPT ![c] = Invoke(@, error, item, more)]
    /\ errors' = IF Truthy(error) THEN Emit(error) ELSE errors
    /\ UNCHANGED <<given, context, methods, inspectedOutput, listening,
                   received>>

\* result of call c invoked with isFirst a variable of the server, not of
\* the call
CallResultSharedFirst(c, error, item, more) ==
    /\ SinkCalls(channels) < MaxCalls
    /\ channels[c].sink
    /\ channels' = [d \in DOMAIN channels |->
                      IF d = c THEN Invoke(channels[c], error, item, more)
                      ELSE [channels[d] EXCEPT !.isFirst = FALSE]]
    /\ UNCHANGED <<given, context, methods, inspectedOutput, listening, errors,
                   received>>

\* application code invokes the result sink of call c
CallResult(c, error, item, more) ==
    /\ SinkCalls(channels) < MaxCalls
    /\ channels[c].sink
    /\ channels' = [channels EXCEPT ![c] = Invoke(@, error, item, more)]
    /\ UNCHANGED <<given, context, methods, inspectedOutput, listening, errors,
                   received>>

\* the members application code adds to the Context after construction
AddedNames == {"late", "toString"}

\* application code adds a method to the Context after construction
AddMethod(name) ==
    /\ context[name].body # "user"
    /\ context' = [context EXCEPT ![name] = Function(<<"cb">>)]
    /\ UNCHANGED <<given, methods, inspectedOutput, listening, errors, channels,
                   received>>

\* server.on("error", listener)
Subscribe ==
    /\ ~listening
    /\ listening' = TRUE
    /\ UNCHANGED <<given, context, methods, inspectedOutput, errors, channels,
                   received>>

RECURSIVE Beats(_)
\* the number of times the heartbeat timers have fired so far
Beats(chs) ==
    IF chs = <<>> THEN 0
    ELSE Head(chs).ticks + Head(chs).failures + Beats(Tail(chs))

\* the heartbeat timer of call c fires and sends its liveness signal
HeartbeatTick(c) ==
    /\ Beats(channels) < MaxTicks
    /\ channels[c].timer
    /\ channels' = [channels EXCEPT ![c] = Tick(@)]
    /\ UNCHANGED <<given, context, methods, inspectedOutput, listening, errors,
                   received>>

\* what the heartbeat of a channel reports to its callback
HeartbeatErrors == {Str("Lost remote"), Null}

\* the heartbeat timer of call c fires and reports error to the callback
\* _recv gave to addHeartbeat
HeartbeatFailure(c, error) ==
    /\ Beats(channels) < MaxTicks
    /\ channels[c].timer
    /\ channels' = [channels EXCEPT ![c] = HeartbeatCallback(Fail(@, error), error)]
    /\ errors' = HeartbeatEmits(error)
    /\ UNCHANGED <<given, context, methods, inspectedOutput, listening,
                   received>>

Next ==
    \/ \E event \in Requests : Receive(event)
    \/ \E c \in DOMAIN channels, in \in SinkInputs :
          CallResult(c, in[1], in[2], in[3])
    \/ \E name \in AddedNames : AddMethod(name)
    \/ Subscribe

Spec == Init /\ [][Next]_vars

\* the requests and the sink inputs of the server observed with the
\* heartbeat timers of its channels running
OneArg == Arr(<<Str("x")>>)
HeartbeatRequests ==
    {[name |-> "add", args |-> OneArg], [name |-> "add", args |-> BadArgs],
     [name |-> "version", args |-> NoArgs]}
HeartbeatSinkInputs ==
    {<<Null, Str("a"), True>>, <<Null, Undefined, False>>,
     <<Str("boom"), Undefined, Undefined>>}

\* the server with the heartbeat timers of its channels running
NextHeartbeat ==
    \/ \E event \in HeartbeatRequests : Receive(event)
    \/ \E c \in DOMAIN channels, in \in HeartbeatSinkInputs :
          CallResult(c, in[1], in[2], in[3])
    \/ Subscribe
    \/ \E c \in DOMAIN channels : HeartbeatTick(c)
    \/ \E c \in DOMAIN channels, error \in HeartbeatErrors :
          HeartbeatFailure(c, error)

SpecHeartbeat == Init /\ [][NextHeartbeat]_vars

(***************************************************************************)
(* Properties.                                                             *)
(***************************************************************************)
Channels == {channels[c] : c \in DOMAIN channels}
Last(s) == s[Len(s)]
Kinds(ch) == [i \in 1..Len(ch.frames) |-> ch.frames[i].kind]
Count(ch, kinds) == Cardinality({i \in 1..Len(ch.frames) : ch.frames[i].kind \in kinds})
NoError(call) == ~Truthy(call.error)
\* the channel was closed by its result sink
ClosedBySink(ch) == ch.finished /\ ch.calls # <<>>

\* C1: on every channel at most one frame is OK or ERR, and such a frame is
\* the last frame of the channel, which is closed (by one close() call) as
\* soon as the frame is there.
C1_OneTerminalFrame ==
    \A ch \in Channels :
        /\ Count(ch, {"OK", "ERR"}) <= 1
        /\ \A i \in 1..Len(ch.frames) :
              ch.frames[i].kind \in {"OK", "ERR"}
                  => i = Len(ch.frames) /\ ch.closed /\ ch.finished /\ ch.closes = 1

\* an ERR frame after a STREAM frame, on a closed channel
C1_Witness ==
    \E ch \in Channels :
        /\ Kinds(ch) = <<"STREAM", "ERR">>
        /\ ch.closed /\ ch.closes = 1

\* C2: an invocation of the result sink of a finished channel raises an
\* error and changes nothing else of the channel: no frame, no close(), no
\* flag; and an error is raised by no other invocation.
C2_Step(old, new) ==
    new.invocations = old.invocations + 1
        => IF old.finished
           THEN new = [old EXCEPT !.invocations = @ + 1, !.raised = @ + 1]
           ELSE new.raised = old.raised

C2_RaisesWhenFinished ==
    [][\A c \in DOMAIN channels : C2_Step(channels[c], channels'[c])]_vars

\* a finished channel whose sink was invoked again
C2_Witness ==
    \E ch \in Channels :
        ch.finished /\ ch.raised = 1 /\ ch.invocations = 2 /\ Len(ch.frames) = 1

\* the frames are STREAM frames followed by one STREAM_DONE
StreamsThenDone(ch) ==
    /\ ch.frames # <<>>
    /\ \A i \in 1..Len(ch.frames) :
          ch.frames[i].kind = IF i = Len(ch.frames) THEN "STREAM_DONE" ELSE "STREAM"

\* C3 as claimed: every channel closed through the sink has the frames
\* STREAM* STREAM_DONE unless its first invocation had more = false, and
\* then it has no STREAM_DONE.
C3_AsClaimed ==
    \A ch \in Channels :
        ClosedBySink(ch) =>
            IF Truthy(ch.calls[1].more)
            THEN StreamsThenDone(ch)
            ELSE Count(ch, {"STREAM_DONE"}) = 0

\* C3 amended: every channel closed through the sink by an invocation
\* without error has the frames STREAM* STREAM_DONE unless its first
\* invocation had more = false; when the first invocation had more = false
\* there is no STREAM_DONE.
C3_StreamDone ==
    \A ch \in Channels :
        ClosedBySink(ch) =>
            IF Truthy(ch.calls[1].more)
            THEN NoError(Last(ch.calls)) => StreamsThenDone(ch)
            ELSE Count(ch, {"STREAM_DONE"}) = 0

\* a stream of two items closed by STREAM_DONE, and a channel closed by its
\* first invocation
C3_Witness ==
    /\ \E ch \in Channels :
          /\ ClosedBySink(ch) /\ NoError(Last(ch.calls))
          /\ Kinds(ch) = <<"STREAM", "STREAM", "STREAM_DONE">>
    /\ \E ch \in Channels :
          ClosedBySink(ch) /\ Len(ch.calls) = 1 /\ NoError(ch.calls[1])

\* C4: when the first invocation has no error and more = false, the
\* channel's frames are the one frame OK [item], and the channel is closed.
C4_SingleOK ==
    \A ch \in Channels :
        (ch.calls # <<>> /\ NoError(ch.calls[1]) /\ ~Truthy(ch.calls[1].more))
            => /\ ch.frames = <<Frame("OK", Arr(<<ch.calls[1].item>>))>>
               /\ ch.closed /\ ch.finished /\ ch.closes = 1

\* OK [undefined] sent, and the sink invoked again afterwards
C4_Witness ==
    \E ch \in Channels :
        /\ ch.frames = <<Frame("OK", Arr(<<Undefined>>))>>
        /\ ch.event.name = "add"
        /\ ch.raised = 1

\* the calls of a completed stream: no error anywhere, more = true on all
\* but the last of at least two invocations
StreamedCalls(ch) ==
    /\ ch.finished
    /\ Len(ch.calls) >= 2
    /\ \A i \in 1..Len(ch.calls) :
          /\ NoError(ch.calls[i])
          /\ Truthy(ch.calls[i].more) <=> i < Len(ch.calls)

\* one STREAM frame with the raw item for each call whose item passes
\* Present, in the order of the calls
StreamFrames(calls, Present(_)) ==
    LET sent == SelectSeq(calls, LAMBDA call : Present(call.item))
    IN  [i \in 1..Len(sent) |-> Frame("STREAM", sent[i].item)]

IsDefined(item) == item # Undefined
IsNeitherUndefinedNorNull(item) == item # Undefined /\ item # Null

StreamOf(ch, Present(_)) ==
    /\ ch.frames = StreamFrames(ch.calls, Present) \o <<Frame("STREAM_DONE", Arr(<<>>))>>
    /\ ch.closed /\ ch.closes = 1

\* C5 as claimed: a completed stream has one STREAM frame with the raw item
\* for each invocation whose item is defined (not undefined), in order, then
\* one STREAM_DONE [], and is closed.
C5_AsClaimed ==
    \A ch \in Channels : StreamedCalls(ch) => StreamOf(ch, IsDefined)

\* C5 amended: a completed stream has one STREAM frame with the raw item
\* for each invocation whose item is neither undefined nor null, in order,
\* then one STREAM_DONE [], and is closed.
C5_Stream ==
    \A ch \in Channels : StreamedCalls(ch) => StreamOf(ch, IsNeitherUndefinedNorNull)

\* items null, a: the frames STREAM a, STREAM_DONE []
C5_Witness ==
    \E ch \in Channels :
        /\ StreamedCalls(ch)
        /\ Len(ch.calls) = 2
        /\ [i \in 1..2 |-> ch.calls[i].item] = <<Null, Str("a")>>
        /\ ch.frames = <<Frame("STREAM", Str("a")), Frame("STREAM_DONE", Arr(<<>>))>>

\* the [type, message, stack] of an error: a string is the message of a new
\* error without type, and the type is "Error" when there is none
ErrTriple(error) ==
    IF error.t = "string" THEN <<Str("Error"), error, Str("<stack>")>>
    ELSE <<IF error.elems[1] = Undefined THEN Str("Error") ELSE error.elems[1],
           error.elems[2], error.elems[3]>>

\* the effect of an invocation with error set on an unfinished channel
C6_Step(old, new) ==
    (/\ ~old.finished
     /\ new.invocations = old.invocations + 1
     /\ Len(new.calls) = Len(old.calls) + 1
     /\ Truthy(Last(new.calls).error))
        => /\ new.frames = Append(old.frames,
                                  Frame("ERR", Arr(ErrTriple(Last(new.calls).error))))
           /\ new.closed /\ new.finished /\ new.closes = 1

\* C6: an invocation with error set on an unfinished channel sends exactly
\* one frame, ERR [type, message, stack], and closes the channel; an ERR
\* frame is always the last frame of its channel.
C6_ErrTerminal ==
    [][/\ \A c \in DOMAIN channels : C6_Step(channels[c], channels'[c])
       /\ \A c \in DOMAIN channels' :
             \A i \in 1..Len(channels'[c].frames) :
                channels'[c].frames[i].kind = "ERR" => i = Len(channels'[c].frames)
      ]_vars

\* ERR ["Error", "boom", stack] for the string "boom" on the second
\* invocation
C6_Witness ==
    \E ch \in Channels :
        /\ Len(ch.calls) = 2
        /\ Last(ch.calls).error = Str("boom")
        /\ Last(ch.frames) = Frame("ERR", Arr(<<Str("Error"), Str("boom"), Str("<stack>")>>))
        /\ ch.closed

\* the channels of requests that name a registered method and whose args
\* is not an array
BadArgsChannels ==
    {c \in DOMAIN channels :
        /\ \E i \in 1..Len(methods) : methods[i] = channels[c].event.name
        /\ ~InstanceofArray(channels[c].event.args)}

\* C7: a request for a registered method whose args is not an array has its
\* error delivered on the error observable and its channel closed
\* (finished = true), with no frame sent and the method never invoked,
\* whether or not an error listener is subscribed.
C7_BadArgsClosed ==
    /\ Len(errors) >= Cardinality(BadArgsChannels)
    /\ \A c \in BadArgsChannels :
          /\ channels[c].closed /\ channels[c].finished
          /\ channels[c].frames = <<>>
          /\ channels[c].invoked = 0

\* the names C8 calls registered: the Context's own callable members
\* without underscore at construction, and _zerorpc_inspect
RegisteredNames ==
    {n \in ContextNames \ ObjectPrototypeNames :
        ~StartsWithUnderscore(n) /\ given[n].kind = "function"} \cup {InspectName}

\* C8: a request whose name is not registered, inherited names included,
\* is dropped: no channel is ever opened for it (so no heartbeat, no
\* invocation, no frame).
C8_UnregisteredDropped ==
    \A ch \in Channels : ch.event.name \in RegisteredNames

\* the members, inherited ones included, that are callable at construction
\* and whose name does not begin with an underscore, and _zerorpc_inspect
CallableAtConstruction ==
    {n \in ContextNames : ~StartsWithUnderscore(n) /\ given[n].kind = "function"}
        \cup {InspectName}

\* C9: the names the server dispatches are the members callable at
\* construction whose name does not begin with an underscore, plus
\* _zerorpc_inspect, and a function added to the Context afterwards is
\* never invoked by a request.
C9_DispatchSet ==
    /\ \A ch \in Channels : ch.event.name \in CallableAtConstruction
    /\ \A ch \in Channels : ch.invoked > 0 => given[ch.event.name] = context[ch.event.name]
                                               \/ ch.event.name = InspectName

\* the declared parameters without the trailing one
DropLast(s) == IF s = <<>> THEN <<>> ELSE SubSeq(s, 1, Len(s) - 1)

\* C10: the manifest entry of a public method with declared parameters
\* p1..pn, n >= 1, is [name, [["self", p1, ..., p(n-1)], null, null, null], ""].
C10_ManifestEntry ==
    \A i \in 1..Len(inspectedOutput.elems) :
        LET name == methods[i]
            params == DropLast(given[name].params)
        IN  given[name].params # <<>> =>
                inspectedOutput.elems[i] =
                    Arr(<<Str(name),
                          Arr(<<Arr(<<Str("self")>>
                                      \o [k \in 1..Len(params) |-> Str(params[k])]),
                                Null, Null, Null>>),
                          Str("")>>)

\* C11: in every state each channel has had addHeartbeat called exactly
\* once, an open channel has its timer running, channel.close() has been
\* called at most once and the timer was cancelled exactly then, whatever
\* closed the channel; and the timer of a closed channel never fires again.
C11_Step(c) ==
    LET new == channels'[c]
    IN  /\ new.heartbeats = 1
        /\ new.heartbeat = HeartbeatInterval
        /\ new.closes <= 1
        /\ new.closed <=> ~new.timer
        /\ new.cancels = new.closes
        /\ new.closed <=> new.closes = 1
        /\ (c \in DOMAIN channels /\ channels[c].closed) =>
               /\ new.ticks = channels[c].ticks
               /\ new.failures = channels[c].failures
C11_OneHeartbeat == [][\A c \in DOMAIN channels' : C11_Step(c)]_vars
\* a channel closed at the validation failure and a channel closed by its
\* sink after its heartbeat had sent a signal, each cancelled once
C11_Witness ==
    \E c, d \in DOMAIN channels :
        /\ channels[c].event.args = BadArgs
        /\ channels[c].closed /\ channels[c].cancels = 1
        /\ channels[d].ticks = 1 /\ ClosedBySink(channels[d])
        /\ channels[d].cancels = 1 /\ ~channels[d].timer

\* C12: a step in which the heartbeat of a channel reports a failure
\* delivers the error to the listeners of the server's "error" event (a
\* falsy error is not emitted, and without a listener nothing is delivered)
\* and changes nothing else: the frames, isFirst, finished and closed of the
\* channel, every other channel, the Context and the registry are as before,
\* and every later sink invocation has the effect it would have had.
C12_Step(c) ==
    LET old == channels[c]
        new == channels'[c]
    IN  new.failures > old.failures =>
           /\ new = Fail(old, new.lost)
           /\ new.frames = old.frames /\ new.finished = old.finished
           /\ new.closed = old.closed /\ new.isFirst = old.isFirst
           /\ \A d \in DOMAIN channels' \ {c} :
                  d \in DOMAIN channels /\ channels'[d] = channels[d]
           /\ errors' = IF Truthy(new.lost) /\ listening
                         THEN Append(errors, new.lost) ELSE errors
           /\ UNCHANGED <<given, context, methods, inspectedOutput,
                           listening, received>>
           /\ \A in \in SinkInputs :
                  Invoke(new, in[1], in[2], in[3])
                      = Fail(Invoke(old, in[1], in[2], in[3]), new.lost)
RECURSIVE RunAlone(_, _)
\* the channel ch after the sink invocations calls, made with no other call
\* in between
RunAlone(ch, calls) ==
    IF calls = <<>> THEN ch
    ELSE RunAlone(Invoke(ch, Head(calls).error, Head(calls).item, Head(calls).more),
                  Tail(calls))
\* what a call shows of its channel
Shown(ch) ==
    [frames |-> ch.frames, isFirst |-> ch.isFirst, finished |-> ch.finished,
     closed |-> ch.closed]

\* C14: whatever the other calls did in between, the frames, isFirst,
\* finished and closed of every call whose method was invoked are those its
\* own sink invocations produce when they run alone on a freshly opened
\* channel; no frame of another call is among them.
C14_Independent ==
    \A ch \in Channels :
        ch.invoked = 1 =>
            Shown(ch) = Shown(RunAlone(OpenChannel(ch.event), ch.calls))
\* two calls open at once: one has streamed an item and is still open, the
\* other completed with its single OK
C14_Witness ==
    \E c, d \in DOMAIN channels :
        /\ c < d /\ channels[c].sink /\ channels[d].sink
        /\ Kinds(channels[c]) = <<"STREAM">> /\ ~channels[c].closed
        /\ Kinds(channels[d]) = <<"OK">> /\ channels[d].closed

\* the channel ch can still complete: one more sink invocation with
\* more = false closes it after a terminal OK or STREAM_DONE frame
CanComplete(ch) ==
    LET done == Invoke(ch, Null, Str("a"), False)
    IN  /\ done.closed /\ done.finished
        /\ Last(done.frames).kind \in {"OK", "STREAM_DONE"}
        /\ Len(done.frames) > Len(ch.frames)

\* C15: a step that sends ERR on the channel of a call closes that channel,
\* emits nothing on the server's "error" event, and leaves every other
\* channel as it was; those that were open are still open and can still
\* complete.
C15_Step(c) ==
    LET old == channels[c]
        new == channels'[c]
    IN  (Len(new.frames) > Len(old.frames) /\ Last(new.frames).kind = "ERR") =>
           /\ new.closed /\ new.finished /\ ~old.closed
           /\ errors' = errors
           /\ DOMAIN channels' = DOMAIN channels
           /\ \A d \in DOMAIN channels \ {c} :
                  /\ channels'[d] = channels[d]
                  /\ (~channels[d].closed /\ channels[d].sink) =>
                         ~channels'[d].closed /\ CanComplete(channels'[d])
C15_ErrorScopedToCall == [][\A c \in DOMAIN channels : C15_Step(c)]_vars
\* a listener is subscribed, a call ended with ERR, nothing was emitted, and
\* a call received before it is still open
C15_Witness ==
    \E c, d \in DOMAIN channels :
        /\ d < c /\ listening /\ errors = <<>>
        /\ Kinds(channels[c]) = <<"ERR">> /\ channels[c].closed
        /\ channels[d].sink /\ ~channels[d].closed /\ ~channels[d].finished

\* a sink invocation that ends its call: error set, or more false
Terminal(call) == Truthy(call.error) \/ ~Truthy(call.more)
\* the step made a terminal sink invocation on the channel
TerminalInvocation(old, new) ==
    /\ Len(new.calls) = Len(old.calls) + 1
    /\ Terminal(Last(new.calls))

\* C16: a channel is closed exactly when its finished flag is set; a channel
\* is closed as it is opened only when its arguments fail validation (or its
\* method completes at once); an open channel is closed only by a step that
\* makes a terminal sink invocation on it, and through every other step
\* (non-terminal invocations, heartbeat signals and failures, other
\* requests) it stays open with its heartbeat timer running.
C16_Step(c) ==
    LET new == channels'[c]
    IN  /\ new.closed <=> new.finished
        /\ (c \notin DOMAIN channels /\ new.closed) =>
               \/ ~InstanceofArray(new.event.args) /\ new.invoked = 0
               \/ new.calls # <<>> /\ Terminal(Last(new.calls))
        /\ (c \in DOMAIN channels /\ ~channels[c].closed) =>
               IF TerminalInvocation(channels[c], new)
               THEN new.closed /\ ~new.timer
               ELSE ~new.closed /\ ~new.finished /\ new.timer
                    /\ new.heartbeats = 1
        /\ (c \in DOMAIN channels /\ channels[c].closed) => new.closed
C16_ClosedOnlyBySinkOrValidation ==
    [][\A c \in DOMAIN channels' : C16_Step(c)]_vars
\* a call that made a non-terminal invocation and whose heartbeat reported
\* a failure is still open with its timer running after another request
\* was received and closed at validation
C16_Witness ==
    \E c, d \in DOMAIN channels :
        /\ c < d
        /\ Len(channels[c].calls) = 1 /\ ~Terminal(channels[c].calls[1])
        /\ channels[c].failures = 1
        /\ ~channels[c].closed /\ channels[c].timer
        /\ channels[d].event.args = BadArgs /\ channels[d].closed

\* the name is a key of the registry
Registered(name) == \E i \in 1..Len(methods) : methods[i] = name

\* C17: for every request that names a registered method, _recv opens the
\* channel, then attaches the heartbeat at the configured interval, then
\* validates the arguments, and with an argument array it then applies the
\* method once, to the arguments of the request in their order followed by
\* the result sink; with anything else the method is not applied. The
\* method is never applied a second time.
C17_OrderOfRecv ==
    \A ch \in Channels :
        Registered(ch.event.name) =>
            /\ ch.heartbeat = HeartbeatInterval /\ ch.heartbeats = 1
            /\ IF InstanceofArray(ch.event.args)
               THEN /\ ch.log = <<"openChannel", "addHeartbeat", "validate",
                                  "apply">>
                    /\ ch.invoked = 1
                    /\ ch.applied = ch.event.args.elems \o <<ResultSink>>
               ELSE /\ ch.log = <<"openChannel", "addHeartbeat", "validate">>
                    /\ ch.invoked = 0
                    /\ ch.applied = <<>>
\* one request was applied to its argument and the sink, and a request with
\* bad arguments was not applied at all; sink invocations have followed
C17_Witness ==
    \E c, d \in DOMAIN channels :
        /\ channels[c].applied = <<Str("x"), ResultSink>>
        /\ channels[c].invoked = 1 /\ channels[c].invocations = 2
        /\ channels[d].event.args = BadArgs /\ channels[d].invoked = 0
        /\ Len(channels[d].log) = 3

\* the sink invocation completes its call successfully: no error, more false
Completes(call) == NoError(call) /\ ~Truthy(call.more)

\* C18: once the sink of a channel has been invoked, whatever that sent,
\* isFirst is false; a channel with an OK frame has had one invocation only,
\* a completing one; and when a second or later invocation completes the
\* call, the last frame is STREAM_DONE, whether or not a STREAM came before.
C18_IsFirstOnce ==
    \A ch \in Channels :
        /\ ch.calls # <<>> => ~ch.isFirst
        /\ ch.invocations = 0 => ch.isFirst
        /\ "OK" \in {ch.frames[i].kind : i \in 1..Len(ch.frames)} =>
               Len(ch.calls) = 1 /\ Completes(ch.calls[1])
        /\ (Len(ch.calls) >= 2 /\ Completes(Last(ch.calls))) =>
               /\ Last(ch.frames).kind = "STREAM_DONE"
               /\ \A i \in 1..Len(ch.frames) : ch.frames[i].kind # "OK"
\* a first invocation that sent nothing, then a completing one: the only
\* frame is STREAM_DONE
C18_Witness ==
    \E ch \in Channels :
        /\ Len(ch.calls) = 2
        /\ ch.calls[1] = [error |-> Null, item |-> Undefined, more |-> True]
        /\ Completes(ch.calls[2])
        /\ Kinds(ch) = <<"STREAM_DONE">> /\ ~ch.isFirst /\ ch.closed

\* the request for the manifest
InspectEvent == [name |-> InspectName, args |-> NoArgs]
\* the enumerable members of the Context given at construction that are
\* functions and whose names do not begin with an underscore
PublicAtConstruction ==
    {n \in ContextNames :
        /\ given[n].kind = "function" /\ given[n].body = "user"
        /\ n \notin {"_hidden", "__defineGetter__", InspectName}}
\* the names the entries of the manifest carry
ManifestNames ==
    {inspectedOutput.elems[i].elems[1].v : i \in 1..Len(inspectedOutput.elems)}
\* the channel answered the request with the one frame OK([manifest]) and
\* was closed
AnsweredWithManifest(ch) ==
    /\ ch.frames = <<Frame("OK", Arr(<<inspectedOutput>>))>>
    /\ ch.invoked = 1 /\ ch.invocations = 1
    /\ ch.closed /\ ch.finished /\ ch.closes = 1

\* C19: in every state the request {_zerorpc_inspect, []} is dispatched and
\* _recv answers it with exactly OK([manifest]) and closes the channel, as
\* has every such request received so far; the manifest has one entry for
\* each public method the Context had at construction, in no case one for
\* _zerorpc_inspect or a member whose name begins with an underscore.
C19_Inspect ==
    /\ In(InspectName, methods) /\ Registered(InspectName)
    /\ AnsweredWithManifest(Recv(InspectEvent))
    /\ \A ch \in Channels : ch.event = InspectEvent => AnsweredWithManifest(ch)
    /\ ManifestNames = PublicAtConstruction
    /\ Len(inspectedOutput.elems) = Cardinality(PublicAtConstruction)
\* the service with add, ping and now, and the hidden _hidden, was asked for
\* its manifest and answered with OK and the three entries
C19_Witness ==
    /\ given = Service
    /\ ManifestNames = {"add", "ping", "now"}
    /\ \E ch \in Channels :
           /\ ch.event = InspectEvent
           /\ Kinds(ch) = <<"OK">> /\ ch.frames[1].payload.elems[1] = inspectedOutput
           /\ ch.closed

\* the kinds of frame sent on the channel
KindSet(ch) == {ch.frames[i].kind : i \in 1..Len(ch.frames)}

\* C20: in every state a channel on which OK was sent has that one frame
\* and no other, and a channel on which STREAM or STREAM_DONE was sent has
\* no OK frame.
C20_OkNeverMixed ==
    \A ch \in Channels :
        /\ "OK" \in KindSet(ch) => Len(ch.frames) = 1
        /\ KindSet(ch) \cap {"STREAM", "STREAM_DONE"} # {} =>
               "OK" \notin KindSet(ch)
\* a call whose second invocation completed it with an item sent the item
\* as STREAM and then STREAM_DONE, while another call sent only its OK
C20_Witness ==
    \E c, d \in DOMAIN channels :
        /\ Len(channels[c].calls) = 2
        /\ channels[c].calls[2] = [error |-> Null, item |-> Str("a"), more |-> False]
        /\ Last(channels[c].frames).kind = "STREAM_DONE"
        /\ "STREAM" \in KindSet(channels[c])
        /\ Kinds(channels[d]) = <<"OK">> /\ channels[d].closed

====
